---------------------------- MODULE Spec2Model ----------------------------
(***************************************************************************)
(* Parallel Cyclic Reduction solver for tridiagonal systems (pcr.c) with   *)
(* the data model it runs on (diagonal.c, sle.c) and the driver that calls *)
(* it (main.c).                                                            *)
(*                                                                         *)
(* Memory is a heap of blocks addressed by positive integers, NULL is 0.   *)
(* A float is modelled by its IEEE-754 class: NaN, an infinity, or a       *)
(* finite value s * (n/d) * 10^(30*e) with e in -1..1.  The scale e is     *)
(* what the EPSILON substitution of pcr.c moves: a magnitude of 10^60      *)
(* overflows the float range to an infinity, one of 10^-60 underflows to a *)
(* signed zero, and a sum of two values of different scale is the value of *)
(* the larger scale.  The rounding of the significand is not modelled.     *)
(*                                                                         *)
(* The caller makes the calls of main.c in the order of main.c.  It is any *)
(* caller of the interface of sle.h and solver.h: the n of system_copy may *)
(* differ from the n of system, and the coefficients stored in a, b, c, d  *)
(* are drawn from Inputs, a[0] and c[n-1] included.  The iterations of     *)
(* each omp parallel for are steps of their own and run in any order.      *)
(* SpecDecoupled and SpecValidated run the same caller on other            *)
(* coefficients: systems without coupling, and coupled systems whose       *)
(* right-hand side holds zeros and values of magnitude 10^30.              *)
(***************************************************************************)
EXTENDS Integers, Sequences, FiniteSets, TLC

(***************************************************************************)
(* Bounds                                                                  *)
(***************************************************************************)
MaxN == 3

(***************************************************************************)
(* float                                                                   *)
(***************************************************************************)
RECURSIVE GCD(_, _)
GCD(m, k) == IF k = 0 THEN m ELSE GCD(k, m % k)

F(k, s, n, d, e) == [k |-> k, s |-> s, n |-> n, d |-> d, e |-> e]

\* the content of a block of malloc before it is written
Undef == F("undef", 1, 0, 1, 0)
NaN == F("nan", 1, 0, 1, 0)
Inf(s) == F("inf", s, 0, 1, 0)
FZero(s) == F("fin", s, 0, 1, 0)

\* the float nearest to s * (n/d) * 10^(30*e)
Fin(s, n, d, e) ==
  IF n = 0 THEN FZero(s)
  ELSE IF e > 1 THEN Inf(s)
  ELSE IF e < -1 THEN FZero(s)
  ELSE LET g == GCD(n, d) IN F("fin", s, n \div g, d \div g, e)

Flt(i) == IF i < 0 THEN Fin(-1, -i, 1, 0) ELSE Fin(1, i, 1, 0)
Zero == Flt(0)
One == Flt(1)
\* a finite float of magnitude 10^30
Big == Fin(1, 1, 1, 1)

FIsZero(x) == x.k = "fin" /\ x.n = 0
FIsNaN(x) == x.k = "nan"

\* x == y of C
FEq(x, y) ==
  /\ x.k \in {"inf", "fin"}
  /\ y.k \in {"inf", "fin"}
  /\ \/ x = y
     \/ FIsZero(x) /\ FIsZero(y)

FNeg(x) == IF x.k \in {"undef", "nan"} THEN x ELSE [x EXCEPT !.s = -x.s]

FMul(x, y) ==
  IF x.k = "undef" \/ y.k = "undef" THEN Undef
  ELSE IF x.k = "nan" \/ y.k = "nan" THEN NaN
  ELSE IF x.k = "inf" \/ y.k = "inf"
    THEN IF FIsZero(x) \/ FIsZero(y) THEN NaN ELSE Inf(x.s * y.s)
  ELSE Fin(x.s * y.s, x.n * y.n, x.d * y.d, x.e + y.e)

FDiv(x, y) ==
  IF x.k = "undef" \/ y.k = "undef" THEN Undef
  ELSE IF x.k = "nan" \/ y.k = "nan" THEN NaN
  ELSE IF x.k = "inf"
    THEN IF y.k = "inf" THEN NaN ELSE Inf(x.s * y.s)
  ELSE IF y.k = "inf" THEN FZero(x.s * y.s)
  ELSE IF FIsZero(y)
    THEN IF FIsZero(x) THEN NaN ELSE Inf(x.s * y.s)
  ELSE Fin(x.s * y.s, x.n * y.d, x.d * y.n, x.e - y.e)

FAdd(x, y) ==
  IF x.k = "undef" \/ y.k = "undef" THEN Undef
  ELSE IF x.k = "nan" \/ y.k = "nan" THEN NaN
  ELSE IF x.k = "inf"
    THEN IF y.k = "inf" /\ y.s # x.s THEN NaN ELSE x
  ELSE IF y.k = "inf" THEN y
  ELSE IF FIsZero(x)
    THEN IF FIsZero(y) THEN FZero(IF x.s = -1 /\ y.s = -1 THEN -1 ELSE 1)
         ELSE y
  ELSE IF FIsZero(y) THEN x
  ELSE IF x.e > y.e THEN x
  ELSE IF y.e > x.e THEN y
  ELSE LET num == x.s * x.n * y.d + y.s * y.n * x.d
       IN  IF num < 0 THEN Fin(-1, -num, x.d * y.d, x.e)
           ELSE Fin(1, num, x.d * y.d, x.e)

FSub(x, y) == FAdd(x, FNeg(y))

\* fabs
FAbs(x) == IF x.k \in {"undef", "nan"} THEN x ELSE [x EXCEPT !.s = 1]

\* |x| > |y| for two values that are neither zero nor NaN
MagGt(x, y) ==
  IF x.k = "inf" THEN y.k # "inf"
  ELSE IF y.k = "inf" THEN FALSE
  ELSE IF x.e # y.e THEN x.e > y.e
  ELSE x.n * y.d > y.n * x.d

\* x > y of C
FGt(x, y) ==
  /\ x.k \in {"inf", "fin"}
  /\ y.k \in {"inf", "fin"}
  /\ LET sx == IF FIsZero(x) THEN 0 ELSE x.s
         sy == IF FIsZero(y) THEN 0 ELSE y.s
     IN  IF sx # sy THEN sx > sy
         ELSE IF sx = 0 THEN FALSE
         ELSE IF sx = 1 THEN MagGt(x, y)
         ELSE MagGt(y, x)

(***************************************************************************)
(* heap                                                                    *)
(***************************************************************************)
NULL == 0

\* what dereferencing a null pointer, or writing past the end of a block,
\* can do: fault, or go on (a null pointer reads as null, the bytes past
\* the end of the block land in memory that no block of the program owns)
UBOutcomes == {"crash", "benign"}

\* calloc(0, size): a null pointer or a unique pointer, as the platform has it
Calloc0Outcomes == {"null", "unique"}

Fields == <<"a", "b", "c", "d", "x">>
Coeffs == {"a", "b", "c", "d"}

Block(kind, val) == [frees |-> 0, kind |-> kind, val |-> val]
Alloc(h, kind, val) == Append(h, Block(kind, val))
Free(h, p) == IF p = NULL THEN h ELSE [h EXCEPT ![p].frees = @ + 1]
Live(h, p) == p \in 1..Len(h) /\ h[p].frees = 0

Rows(n) == 0..(n - 1)
NoHandles == [f \in Coeffs |-> NULL]
ZeroArray(n) == [i \in Rows(n) |-> Zero]
UndefArray(n) == [i \in Rows(n) |-> Undef]

\* soe->f, soe->f->n, soe->f->data and the floats soe->f->data points to
Diag(h, soe, f) == h[soe].val[f]
DiagN(h, soe, f) == h[Diag(h, soe, f)].val.n
Data(h, soe, f) == h[Diag(h, soe, f)].val.data
Elems(h, soe, f) == h[Data(h, soe, f)].val

\* what a call leaves: the heap, its return value, the pointer it stored,
\* whether it faulted, and the functions that read through a null pointer
Res(h, ret, ptr, crash) ==
  [heap |-> h, ret |-> ret, ptr |-> ptr, crash |-> crash, deref |-> {}]
Deref(r, fn) == [r EXCEPT !.deref = @ \cup {fn}]
\* q is what follows r in program order
After(r, q) == [q EXCEPT !.deref = r.deref \cup @]

(***************************************************************************)
(* diagonal.c                                                              *)
(***************************************************************************)
\* fail: "rec" when the calloc of the record fails, "data" when the calloc
\* of the data fails, "none" when no allocation fails
diagonal_create(h, n, fail, zero, ub) ==
  IF fail = "rec"
    THEN \* d == NULL, and error: reads d->data
         Deref(Res(h, -1, NULL, ub = "crash"), "diagonal_create")
  ELSE LET d == Len(h) + 1
           h1 == Alloc(h, "diag", [n |-> n, data |-> NULL])
       IN  IF fail = "data" \/ (n = 0 /\ zero = "null")
             THEN Res(Free(h1, d), -1, NULL, FALSE)
             ELSE LET buf == Len(h1) + 1
                      h2 == Alloc(h1, "buf", ZeroArray(n))
                  IN  Res([h2 EXCEPT ![d].val.data = buf], 0, d, FALSE)

diagonal_destroy(h, diag, ub) ==
  IF diag = NULL
    THEN \* reads diag->data
         Deref(Res(h, 0, NULL, ub = "crash"), "diagonal_destroy")
  ELSE LET data == h[diag].val.data
           h1 == IF data # NULL
                   THEN [Free(h, data) EXCEPT ![diag].val.data = NULL]
                   ELSE h
       IN  Res(Free(h1, diag), 0, NULL, FALSE)

(***************************************************************************)
(* sle.c                                                                   *)
(***************************************************************************)
RECURSIVE DestroyDiagonals(_, _, _, _)
DestroyDiagonals(h, soe, j, ub) ==
  IF j > Len(Fields) THEN Res(h, 0, NULL, FALSE)
  ELSE LET r == diagonal_destroy(h, Diag(h, soe, Fields[j]), ub)
       IN  IF r.crash THEN r
           ELSE After(r, DestroyDiagonals(r.heap, soe, j + 1, ub))

triSLE_destroy(h, soe, ub) ==
  IF soe = NULL THEN Res(h, -1, NULL, FALSE)
  ELSE LET r == DestroyDiagonals(h, soe, 1, ub)
       IN  IF r.crash THEN r
           ELSE After(r, Res(Free(r.heap, soe), 0, NULL, FALSE))

\* the allocations of triSLE_create in program order: 1 is the system
\* record, 2j and 2j+1 are the record and the data of Fields[j]
FailKind(failAt, j) ==
  IF failAt = 2 * j THEN "rec" ELSE IF failAt = 2 * j + 1 THEN "data" ELSE "none"

RECURSIVE CreateDiagonals(_, _, _, _, _, _, _)
CreateDiagonals(h, p, j, n, failAt, zero, ub) ==
  IF j > Len(Fields) THEN Res(h, 0, p, FALSE)
  ELSE LET r == diagonal_create(h, n, FailKind(failAt, j), zero, ub)
       IN  IF r.crash \/ r.ret # 0 THEN r
           ELSE After(r, CreateDiagonals(
                             [r.heap EXCEPT ![p].val[Fields[j]] = r.ptr],
                             p, j + 1, n, failAt, zero, ub))

\* failAt = 0: no allocation fails; ptr is what *soe holds afterwards
triSLE_create(h, soe, n, failAt, zero, ub) ==
  IF failAt = 1 THEN Res(h, -1, soe, FALSE)
  ELSE LET p == Len(h) + 1
           h1 == Alloc(h, "sle", [f \in Coeffs \cup {"x"} |-> NULL])
           r == CreateDiagonals(h1, p, 1, n, failAt, zero, ub)
       IN  IF r.crash THEN After(r, Res(r.heap, -1, soe, TRUE))
           ELSE IF r.ret # 0
             THEN LET q == triSLE_destroy(r.heap, p, ub)
                  IN  After(r, After(q, Res(q.heap, -1, soe, q.crash)))
           ELSE Res(r.heap, 0, p, FALSE)

\* a copy that stops one element short
memcpy_ShortByOne(h, dst, src, cnt) ==
  [h EXCEPT ![dst].val =
     [i \in DOMAIN @ |-> IF i < cnt - 1 THEN h[src].val[i] ELSE @[i]]]

\* memcpy(dst, src, cnt * sizeof(float)) between two data blocks
memcpy(h, dst, src, cnt) ==
  [h EXCEPT ![dst].val =
     [i \in DOMAIN @ |-> IF i < cnt THEN h[src].val[i] ELSE @[i]]]

RECURSIVE CopyCoeffs(_, _, _, _)
CopyCoeffs(h, dest, src, j) ==
  IF j > 4 THEN h
  ELSE CopyCoeffs(memcpy(h, Data(h, dest, Fields[j]), Data(h, src, Fields[j]),
                         DiagN(h, src, "b")),
                  dest, src, j + 1)

\* crash: a memcpy ran past the end of a block of dest and faulted
triSLE_copy(h, dest, src, ub) ==
  IF dest = NULL \/ src = NULL THEN Res(h, -1, NULL, FALSE)
  ELSE LET over == DiagN(h, src, "b") > DiagN(h, dest, "b")
       IN  IF over /\ ub = "crash" THEN Res(h, 0, NULL, TRUE)
           ELSE Res(CopyCoeffs(h, dest, src, 1), 0, NULL, FALSE)

\* sle.c 68-76, 106-114: row i of the initial system applied to the x of the
\* result system
Residual(h, result_system, initial_system, i) ==
  LET x == Elems(h, result_system, "x")
      r0 == FMul(Elems(h, initial_system, "b")[i], x[i])
      r1 == IF i > 0
              THEN FAdd(r0, FMul(Elems(h, initial_system, "a")[i], x[i - 1]))
              ELSE r0
  IN  IF i < DiagN(h, initial_system, "b") - 1
        THEN FAdd(r1, FMul(Elems(h, initial_system, "c")[i], x[i + 1]))
        ELSE r1

\* sle.c 86: fabs(result - expected) / fabs(expected)
RelativeError(result, expected) ==
  FDiv(FAbs(FSub(result, expected)), FAbs(expected))

\* a row whose expected value is zero is measured like any other
MaxRelRow_ZeroMeasured(max, result, expected) ==
  IF FGt(RelativeError(result, expected), max)
    THEN RelativeError(result, expected)
    ELSE max

\* sle.c 84-90: the maximum after a row whose residual is not NaN
MaxRelRow(max, result, expected) ==
  IF ~FEq(expected, Zero)
    THEN IF FGt(RelativeError(result, expected), max)
           THEN RelativeError(result, expected)
           ELSE max
    ELSE max

\* sle.c 67-91: the loop from row i on; rows counts the rows examined
RECURSIVE MaxRelFrom(_, _, _, _, _)
MaxRelFrom(h, result_system, initial_system, i, max) ==
  IF i >= DiagN(h, initial_system, "b") THEN [val |-> max, rows |-> i]
  ELSE LET result == Residual(h, result_system, initial_system, i)
       IN  IF FIsNaN(result) THEN [val |-> result, rows |-> i + 1]
           ELSE MaxRelFrom(h, result_system, initial_system, i + 1,
                           MaxRelRow(max, result,
                                     Elems(h, initial_system, "d")[i]))

\* both validators read x[i] of the result system for every row of the
\* initial system
OverRead(h, result_system, initial_system) ==
  DiagN(h, initial_system, "b") > DiagN(h, result_system, "b")

\* a read past the end of x makes the value returned indeterminate
triSLE_validate_maxrel(h, result_system, initial_system) ==
  IF result_system = NULL \/ initial_system = NULL
    THEN [val |-> FDiv(Zero, Zero), rows |-> 0]
  ELSE IF OverRead(h, result_system, initial_system)
    THEN [val |-> Undef, rows |-> DiagN(h, initial_system, "b")]
  ELSE MaxRelFrom(h, result_system, initial_system, 0, Zero)

\* sle.c 115-122: the total after a row
MapeRow(total, result, expected) ==
  IF ~FEq(expected, Zero)
    THEN FAdd(total, FMul(FAbs(FDiv(FSub(result, expected), expected)),
                          Flt(100)))
  ELSE IF FEq(expected, Zero) /\ ~FEq(result, Zero) THEN FAdd(total, One)
  ELSE total

RECURSIVE MapeFrom(_, _, _, _, _)
MapeFrom(h, result_system, initial_system, i, total) ==
  IF i >= DiagN(h, initial_system, "b") THEN total
  ELSE MapeFrom(h, result_system, initial_system, i + 1,
                MapeRow(total, Residual(h, result_system, initial_system, i),
                        Elems(h, initial_system, "d")[i]))

triSLE_validate_mape(h, result_system, initial_system) ==
  IF result_system = NULL \/ initial_system = NULL THEN FDiv(Zero, Zero)
  ELSE IF OverRead(h, result_system, initial_system) THEN Undef
  ELSE FDiv(MapeFrom(h, result_system, initial_system, 0, Zero),
            Flt(DiagN(h, initial_system, "b")))

(***************************************************************************)
(* pcr.c                                                                   *)
(***************************************************************************)
EPSILON == Fin(1, 1, 1, -1)

\* the divisor of compute_decoupling_coeffs
Divisor(decoupling_value) ==
  IF FIsZero(decoupling_value) THEN EPSILON ELSE decoupling_value

compute_decoupling_coeffs(decoupling_value, into_value) ==
  FDiv(FNeg(into_value), Divisor(decoupling_value))

RECURSIVE Pow2(_)
Pow2(k) == IF k = 0 THEN 1 ELSE 2 * Pow2(k - 1)

\* the bits of the significand of a float
FLT_MANT_DIG == 24

\* the number of bits of n
RECURSIVE BitLen(_)
BitLen(n) == IF n = 0 THEN 0 ELSE 1 + BitLen(n \div 2)

\* (float)n for a size n: n rounded to FLT_MANT_DIG significant bits, to the
\* nearest and to the even one of two nearest
FloatOfSize(n) ==
  IF BitLen(n) <= FLT_MANT_DIG THEN n
  ELSE LET ulp == Pow2(BitLen(n) - FLT_MANT_DIG)
           q == n \div ulp
           r == n % ulp
       IN  IF 2 * r > ulp \/ (2 * r = ulp /\ q % 2 = 1) THEN (q + 1) * ulp
           ELSE q * ulp

\* (size_t)ceil(log2((float)n)), n >= 1
RECURSIVE CeilLog2From(_, _)
CeilLog2From(n, l) == IF Pow2(l) >= n THEN l ELSE CeilLog2From(n, l + 1)
CeilLog2(n) == CeilLog2From(FloatOfSize(n), 0)

\* one iteration of the loop of update_step: what row i stores in
\* tmp_a[i], tmp_b[i], tmp_c[i], tmp_d[i]
update_row(sa, sb, sc, sd, n, level, i) ==
  LET stride == Pow2(level)
      iRight == i + stride
      iLeft == i - stride
      alpha == compute_decoupling_coeffs(IF iLeft < 0 THEN One ELSE sb[iLeft],
                                         sa[i])
      gamma == compute_decoupling_coeffs(IF iRight < n THEN sb[iRight] ELSE One,
                                         sc[i])
      sa_iLeft == IF iLeft < 0 THEN Zero ELSE sa[iLeft]
      sc_iLeft == IF iLeft < 0 THEN Zero ELSE sc[iLeft]
      sd_iLeft == IF iLeft < 0 THEN Zero ELSE sd[iLeft]
      sa_iRight == IF iRight >= n THEN Zero ELSE sa[iRight]
      sc_iRight == IF iRight >= n THEN Zero ELSE sc[iRight]
      sd_iRight == IF iRight >= n THEN Zero ELSE sd[iRight]
  IN  [a |-> FMul(alpha, sa_iLeft),
       c |-> FMul(gamma, sc_iRight),
       b |-> FAdd(FAdd(sb[i], FMul(alpha, sc_iLeft)), FMul(gamma, sa_iRight)),
       d |-> FAdd(FAdd(sd[i], FMul(alpha, sd_iLeft)), FMul(gamma, sd_iRight))]

\* pcr.c 39-55: the locations <<block, index>> that iteration i of the loop
\* of update_step loads from, and those it stores to
RowReads(h, soe, n, level, i) ==
  {<<Data(h, soe, f), k>> :
     f \in Coeffs,
     k \in {i} \cup ({i - Pow2(level), i + Pow2(level)} \cap Rows(n))}
RowWrites(tmp, i) == {<<tmp[f], i>> : f \in Coeffs}

\* a division with its operands exchanged
solve_row_Inverted(sd, sb, i) == FDiv(sb[i], sd[i])

\* pcr.c 111: what iteration i of the last loop stores in sle->x->data[i]
solve_row(sd, sb, i) == FDiv(sd[i], sb[i])

\* the data pointers of the four coefficient vectors of a system
Handles(h, soe) == [f \in Coeffs |-> Data(h, soe, f)]

\* the four malloc of pcr, in program order; those in failed return NULL
RECURSIVE AllocScratch(_, _, _, _, _)
AllocScratch(h, tmp, j, n, failed) ==
  IF j > 4 THEN [heap |-> h, tmp |-> tmp]
  ELSE IF Fields[j] \in failed
    THEN AllocScratch(h, tmp, j + 1, n, failed)
  ELSE AllocScratch(Alloc(h, "buf", UndefArray(n)),
                    [tmp EXCEPT ![Fields[j]] = Len(h) + 1], j + 1, n, failed)

\* a release that frees a_data_tmp again
FreeScratch_Twice(h, tmp) ==
  Free(Free(Free(Free(Free(h, tmp.a), tmp.b), tmp.c), tmp.d), tmp.a)

\* a release that forgets d_data_tmp
FreeScratch_SkipsLast(h, tmp) == Free(Free(Free(h, tmp.a), tmp.b), tmp.c)

\* free(a_data_tmp); free(b_data_tmp); free(c_data_tmp); free(d_data_tmp)
FreeScratch(h, tmp) == Free(Free(Free(Free(h, tmp.a), tmp.b), tmp.c), tmp.d)

\* a swap that gives a the scratch buffer of c and c the scratch buffer of a
SwapHeap_Crossed(h, soe, tmp) ==
  [p \in DOMAIN h |->
     IF \E f \in Coeffs : p = Diag(h, soe, f)
       THEN LET f == CHOOSE g \in Coeffs : p = Diag(h, soe, g)
                g == IF f = "a" THEN "c" ELSE IF f = "c" THEN "a" ELSE f
            IN  [h[p] EXCEPT !.val.data = tmp[g]]
       ELSE h[p]]

\* the swap of sle->f->data with f_data_tmp, for the four coefficient vectors
SwapHeap(h, soe, tmp) ==
  [p \in DOMAIN h |->
     IF \E f \in Coeffs : p = Diag(h, soe, f)
       THEN LET f == CHOOSE g \in Coeffs : p = Diag(h, soe, g)
            IN  [h[p] EXCEPT !.val.data = tmp[f]]
       ELSE h[p]]

\* the four memcpy(f_data_tmp, sle->f->data, n * sizeof(float))
RECURSIVE CopyBack(_, _, _, _, _)
CopyBack(h, soe, tmp, n, j) ==
  IF j > 4 THEN h
  ELSE CopyBack(memcpy(h, tmp[Fields[j]], Data(h, soe, Fields[j]), n),
                soe, tmp, n, j + 1)

\* a swap back without the copy back
Reconcile_NoCopy(h, soe, t, n, levels) ==
  IF (levels % 2) # 0
    THEN [heap |-> SwapHeap(h, soe, t), tmp |-> Handles(h, soe)]
    ELSE [heap |-> h, tmp |-> t]

\* a return without the copy back and the swap back
Reconcile_Skipped(h, soe, t, n, levels) == [heap |-> h, tmp |-> t]

\* pcr.c 119-145: when total_levels is odd, the copy of the live data into
\* the blocks the caller passed and the swap back
Reconcile(h, soe, t, n, levels) ==
  IF (levels % 2) # 0
    THEN [heap |-> SwapHeap(CopyBack(h, soe, t, n, 1), soe, t),
          tmp |-> Handles(h, soe)]
    ELSE [heap |-> h, tmp |-> t]

\* pcr.c 88-112 run to the end on coefficients in: the four vectors after
\* every level, and the x computed from them
LevelOut(in, n, lvl) ==
  [f \in Coeffs |->
     [i \in Rows(n) |-> update_row(in.a, in.b, in.c, in.d, n, lvl, i)[f]]]

RECURSIVE Reduce(_, _, _, _)
Reduce(in, n, lvl, levels) ==
  IF lvl >= levels THEN in ELSE Reduce(LevelOut(in, n, lvl), n, lvl + 1, levels)

Solve(in, n) ==
  LET r == Reduce(in, n, 0, CeilLog2(n))
  IN  [a |-> r.a, b |-> r.b, c |-> r.c, d |-> r.d,
       x |-> [i \in Rows(n) |-> solve_row(r.d, r.b, i)]]

(***************************************************************************)
(* State                                                                   *)
(***************************************************************************)
VARIABLES
  calloc0,       \* what calloc returns for a request of zero bytes
  argN,          \* n of triSLE_create(&system, n)
  argNc,         \* n of triSLE_create(&system_copy, n)
  input,         \* the coefficients the caller stores in a, b, c, d
  heap,          \* the blocks obtained from calloc and malloc, by address
  system,        \* main: triSLE_t *system
  system_copy,   \* main: triSLE_t *system_copy
  saved,         \* main: lower, main, upper, rhs
  pc,            \* the call that main or pcr is about to make
  printed,       \* what main.c 72-74 has printed: the values of the validators
  ret,           \* the call that returned last and its return value
  exitcode,      \* the return value of main
  clock,         \* the number of readings of the monotonic clock
  start_time,    \* main: timer start_time, 0 while it was never written
  end_time,      \* main: timer end_time, 0 while it was never written
  total_levels,  \* pcr: total_levels
  level,         \* pcr: level
  tmp,           \* pcr: a_data_tmp, b_data_tmp, c_data_tmp, d_data_tmp
  rowsDone,      \* the iterations of the running parallel for that are done
  xWrites,       \* the number of stores to sle->x->data[i], for each i
  zeroDiv,       \* a division by a divisor that is zero has been performed
  oom,           \* calloc or malloc has been made to fail for lack of memory
  nullDeref,     \* the functions that have read through a null pointer
  oob            \* a memcpy has run past the end of its destination

vars == <<calloc0, argN, argNc, input, heap, system, system_copy, saved, pc,
          printed, ret, exitcode, clock, start_time, end_time, total_levels, level,
          tmp, rowsDone, xWrites, zeroDiv, oom, nullDeref, oob>>

env == <<calloc0, argN, argNc, input>>
timers == <<clock, start_time, end_time>>
locals == <<total_levels, level, tmp, rowsDone>>
ghosts == <<xWrites, zeroDiv, oom, nullDeref, oob>>

Ret(fn, val) == [fn |-> fn, val |-> val]

\* pcr: size_t n = sle->b->n
N == DiagN(heap, system, "b")

(***************************************************************************)
(* The coefficients a caller may store                                     *)
(***************************************************************************)
Ramp(n) == [i \in Rows(n) |-> Flt(i + 1)]

\* main diagonals with one zero pivot at most
Pivots(n) == {[i \in Rows(n) |-> IF i = z THEN Zero ELSE Flt(2)] : z \in 0..n}

Inputs(n) ==
  [a : [Rows(n) -> {Zero, One}],
   b : Pivots(n),
   c : [Rows(n) -> {Zero, One}],
   d : {Ramp(n)}]

\* a system without coupling whose right-hand side is k times its diagonal
DecoupledInputs(n) ==
  {[a |-> ZeroArray(n), b |-> b, c |-> ZeroArray(n),
    d |-> [i \in Rows(n) |-> FMul(k, b[i])]] :
     b \in [Rows(n) -> {Zero, One, Flt(-2)}],
     k \in {Zero, Flt(3), Flt(-1)}}

\* coupled systems whose right-hand side has zeros, for the validators
ValidatedInputs(n) ==
  [a : {[i \in Rows(n) |-> One]},
   b : Pivots(n),
   c : {[i \in Rows(n) |-> One]},
   d : [Rows(n) -> {Zero, One, Big}]]

InitState ==
  /\ heap = <<>>
  /\ system = NULL
  /\ system_copy = NULL
  /\ saved = NoHandles
  /\ pc = "create"
  /\ printed = <<>>
  /\ ret = Ret("none", 0)
  /\ exitcode = 0
  /\ clock = 0
  /\ start_time = 0
  /\ end_time = 0
  /\ total_levels = 0
  /\ level = 0
  /\ tmp = NoHandles
  /\ rowsDone = {}
  /\ xWrites = [i \in Rows(argN) |-> 0]
  /\ zeroDiv = FALSE
  /\ oom = FALSE
  /\ nullDeref = {}
  /\ oob = FALSE

\* the choice of calloc0 shows only when a request of zero bytes is made
InitCalloc0 ==
  calloc0 \in IF argN = 0 \/ argNc = 0 THEN Calloc0Outcomes ELSE {"unique"}

Init ==
  /\ argN \in 0..MaxN
  /\ argNc \in 0..MaxN
  /\ InitCalloc0
  /\ input \in IF argNc = argN
                 THEN Inputs(argN)
                 ELSE {[a |-> Ramp(argN), b |-> Ramp(argN),
                        c |-> Ramp(argN), d |-> Ramp(argN)]}
  /\ InitState

InitDecoupled ==
  /\ argN \in 0..MaxN
  /\ argNc = argN
  /\ InitCalloc0
  /\ input \in DecoupledInputs(argN)
  /\ InitState

InitValidated ==
  /\ argN \in 0..MaxN
  /\ argNc = argN
  /\ InitCalloc0
  /\ input \in ValidatedInputs(argN)
  /\ InitState

(***************************************************************************)
(* main.c                                                                  *)
(***************************************************************************)
Crash ==
  /\ pc' = "crashed"
  /\ UNCHANGED <<system, system_copy, saved, ret, exitcode>>

\* main.c 26-30
CreateSystem ==
  /\ pc = "create"
  /\ \E failAt \in 0..11, ub \in UBOutcomes :
       LET r == triSLE_create(heap, system, argN, failAt, calloc0, ub)
       IN  /\ heap' = r.heap
           /\ IF r.crash THEN Crash
              ELSE /\ system' = r.ptr
                   /\ ret' = Ret("triSLE_create", r.ret)
                   /\ pc' = IF r.ret # 0 THEN "exit" ELSE "populate"
                   /\ exitcode' = IF r.ret # 0 THEN -1 ELSE exitcode
                   /\ UNCHANGED <<system_copy, saved>>
           /\ oom' = (oom \/ failAt # 0)
           /\ nullDeref' = nullDeref \cup r.deref
  /\ UNCHANGED <<env, printed, timers, locals, xWrites, zeroDiv, oob>>

\* main.c 32-46
Populate ==
  /\ pc = "populate"
  /\ saved' = Handles(heap, system)
  /\ heap' = [p \in DOMAIN heap |->
                IF \E f \in Coeffs : p = Data(heap, system, f)
                  THEN LET f == CHOOSE g \in Coeffs : p = Data(heap, system, g)
                       IN  [heap[p] EXCEPT !.val = input[f]]
                  ELSE heap[p]]
  /\ pc' = "create_copy"
  /\ UNCHANGED <<env, printed, system, system_copy, ret, exitcode, timers, locals,
                 ghosts>>

\* main.c 50-54
CreateCopy ==
  /\ pc = "create_copy"
  /\ \E failAt \in 0..11, ub \in UBOutcomes :
       LET r == triSLE_create(heap, system_copy, argNc, failAt, calloc0, ub)
       IN  /\ heap' = r.heap
           /\ IF r.crash THEN Crash
              ELSE /\ system_copy' = r.ptr
                   /\ ret' = Ret("triSLE_create", r.ret)
                   /\ pc' = IF r.ret # 0 THEN "destroy" ELSE "copy"
                   /\ exitcode' = IF r.ret # 0 THEN -1 ELSE exitcode
                   /\ UNCHANGED <<system, saved>>
           /\ oom' = (oom \/ failAt # 0)
           /\ nullDeref' = nullDeref \cup r.deref
  /\ UNCHANGED <<env, printed, timers, locals, xWrites, zeroDiv, oob>>

\* main.c 56-60
Copy ==
  /\ pc = "copy"
  /\ \E ub \in UBOutcomes :
       LET r == triSLE_copy(heap, system_copy, system, ub)
       IN  /\ heap' = r.heap
           /\ IF r.crash THEN Crash
              ELSE /\ ret' = Ret("triSLE_copy", r.ret)
                   /\ pc' = IF r.ret # 0 THEN "destroy" ELSE "solve"
                   /\ exitcode' = IF r.ret # 0 THEN -1 ELSE exitcode
                   /\ UNCHANGED <<system, system_copy, saved>>
  /\ oob' = (oob \/ DiagN(heap, system, "b") > DiagN(heap, system_copy, "b"))
  /\ UNCHANGED <<env, printed, timers, locals, xWrites, zeroDiv, oom, nullDeref>>

\* main.c 70: TIME_PRINT reads start_time and end_time
TimePrint ==
  /\ pc = "report"
  /\ pc' = "validate_maxrel"
  /\ UNCHANGED <<env, printed, heap, system, system_copy, saved, ret, exitcode, timers,
                 locals, ghosts>>

\* main.c 72-73: printf of triSLE_validate_maxrel(system, system_copy)
ValidateMaxrel ==
  /\ pc = "validate_maxrel"
  /\ \E ub \in UBOutcomes :
       IF OverRead(heap, system, system_copy) /\ ub = "crash"
         THEN Crash /\ UNCHANGED printed
       ELSE /\ printed' = Append(printed,
                 triSLE_validate_maxrel(heap, system, system_copy).val)
            /\ pc' = "validate_mape"
            /\ UNCHANGED <<system, system_copy, saved, ret, exitcode>>
  /\ UNCHANGED <<env, heap, timers, locals, ghosts>>

\* a validator that clears the x it has read
ValidateMape_ClearsX ==
  /\ pc = "validate_mape"
  /\ printed' = Append(printed,
                       triSLE_validate_mape(heap, system, system_copy))
  /\ heap' = [heap EXCEPT ![Data(heap, system, "x")].val = ZeroArray(N)]
  /\ pc' = "destroy"
  /\ UNCHANGED <<env, system, system_copy, saved, ret, exitcode, timers,
                 locals, ghosts>>

\* main.c 74: printf of triSLE_validate_mape(system, system_copy)
ValidateMape ==
  /\ pc = "validate_mape"
  /\ \E ub \in UBOutcomes :
       IF OverRead(heap, system, system_copy) /\ ub = "crash"
         THEN Crash /\ UNCHANGED printed
       ELSE /\ printed' = Append(printed,
                 triSLE_validate_mape(heap, system, system_copy))
            /\ pc' = "destroy"
            /\ UNCHANGED <<system, system_copy, saved, ret, exitcode>>
  /\ UNCHANGED <<env, heap, timers, locals, ghosts>>

\* a driver that returns after destroying system only
DestroySystem_Only ==
  /\ pc = "destroy"
  /\ heap' = triSLE_destroy(heap, system, "benign").heap
  /\ ret' = Ret("triSLE_destroy", 0)
  /\ pc' = "exit"
  /\ UNCHANGED <<env, printed, system, system_copy, saved, exitcode, timers,
                 locals, ghosts>>

\* main.c 52, 57, 65, 76: triSLE_destroy(system)
DestroySystem ==
  /\ pc = "destroy"
  /\ \E ub \in UBOutcomes :
       LET r == triSLE_destroy(heap, system, ub)
       IN  /\ heap' = r.heap
           /\ IF r.crash THEN Crash
              ELSE /\ ret' = Ret("triSLE_destroy", r.ret)
                   /\ pc' = IF system_copy = NULL THEN "exit"
                            ELSE "destroy_copy"
                   /\ UNCHANGED <<system, system_copy, saved, exitcode>>
           /\ nullDeref' = nullDeref \cup r.deref
  /\ UNCHANGED <<env, printed, timers, locals, xWrites, zeroDiv, oom, oob>>

\* main.c 58, 66, 77: triSLE_destroy(system_copy)
DestroyCopy ==
  /\ pc = "destroy_copy"
  /\ \E ub \in UBOutcomes :
       LET r == triSLE_destroy(heap, system_copy, ub)
       IN  /\ heap' = r.heap
           /\ IF r.crash THEN Crash
              ELSE /\ ret' = Ret("triSLE_destroy", r.ret)
                   /\ pc' = "exit"
                   /\ UNCHANGED <<system, system_copy, saved, exitcode>>
           /\ nullDeref' = nullDeref \cup r.deref
  /\ UNCHANGED <<env, printed, timers, locals, xWrites, zeroDiv, oom, oob>>

(***************************************************************************)
(* pcr, called by main.c 64 as pcr(system, &start_time, &end_time)         *)
(***************************************************************************)
\* the divisors of the two divisions of row i at a level
RowDivisors(sb, n, lvl, i) ==
  {Divisor(IF i - Pow2(lvl) < 0 THEN One ELSE sb[i - Pow2(lvl)]),
   Divisor(IF i + Pow2(lvl) < n THEN sb[i + Pow2(lvl)] ELSE One)}

\* pcr.c 61-86, and main.c 64-68 when pcr fails
PcrEntry ==
  /\ pc = "solve"
  /\ IF system = NULL
       THEN /\ ret' = Ret("pcr", -1)
            /\ pc' = "destroy"
            /\ exitcode' = -1
            /\ UNCHANGED <<heap, timers, locals, oom>>
     ELSE IF N = 0
       THEN /\ ret' = Ret("pcr", 0)
            /\ pc' = "report"
            /\ UNCHANGED <<heap, exitcode, timers, locals, oom>>
     ELSE \E failed \in SUBSET Coeffs :
            LET r == AllocScratch(heap, NoHandles, 1, N, failed)
            IN  /\ clock' = clock + 1
                /\ start_time' = clock + 1
                /\ UNCHANGED end_time
                /\ oom' = (oom \/ failed # {})
                /\ IF failed # {}
                     THEN /\ heap' = FreeScratch(r.heap, r.tmp)
                          /\ ret' = Ret("pcr", -1)
                          /\ pc' = "destroy"
                          /\ exitcode' = -1
                          /\ UNCHANGED locals
                     ELSE /\ heap' = r.heap
                          /\ tmp' = r.tmp
                          /\ total_levels' = CeilLog2(N)
                          /\ level' = 0
                          /\ rowsDone' = {}
                          /\ pc' = IF CeilLog2(N) = 0 THEN "pcr_div"
                                   ELSE "pcr_level"
                          /\ UNCHANGED <<ret, exitcode>>
  /\ UNCHANGED <<env, printed, system, system_copy, saved, xWrites, zeroDiv, nullDeref,
                 oob>>

\* an update in place, into the buffers the level reads
UpdateRow_InPlace(i) ==
  /\ pc = "pcr_level"
  /\ i \in Rows(N) \ rowsDone
  /\ LET r == update_row(Elems(heap, system, "a"), Elems(heap, system, "b"),
                         Elems(heap, system, "c"), Elems(heap, system, "d"),
                         N, level, i)
     IN  heap' = [heap EXCEPT ![Data(heap, system, "a")].val[i] = r.a,
                              ![Data(heap, system, "c")].val[i] = r.c,
                              ![Data(heap, system, "b")].val[i] = r.b,
                              ![Data(heap, system, "d")].val[i] = r.d]
  /\ rowsDone' = rowsDone \cup {i}
  /\ UNCHANGED <<env, printed, system, system_copy, saved, pc, ret, exitcode,
                 timers, total_levels, level, tmp, ghosts>>

\* pcr.c 35-56: iteration i of the parallel for of update_step
UpdateRow(i) ==
  /\ pc = "pcr_level"
  /\ i \in Rows(N) \ rowsDone
  /\ LET sb == Elems(heap, system, "b")
         r == update_row(Elems(heap, system, "a"), sb,
                         Elems(heap, system, "c"), Elems(heap, system, "d"),
                         N, level, i)
     IN  /\ heap' = [heap EXCEPT ![tmp.a].val[i] = r.a,
                                 ![tmp.c].val[i] = r.c,
                                 ![tmp.b].val[i] = r.b,
                                 ![tmp.d].val[i] = r.d]
         /\ zeroDiv' = (zeroDiv \/ \E v \in RowDivisors(sb, N, level, i) :
                                     FIsZero(v))
  /\ rowsDone' = rowsDone \cup {i}
  /\ UNCHANGED <<env, printed, system, system_copy, saved, pc, ret, exitcode, timers,
                 total_levels, level, tmp, xWrites, oom, nullDeref, oob>>

\* a swap that does not wait for the rows that are still running
EndLevel_NoBarrier ==
  /\ pc = "pcr_level"
  /\ rowsDone # {}
  /\ heap' = SwapHeap(heap, system, tmp)
  /\ tmp' = Handles(heap, system)
  /\ level' = level + 1
  /\ rowsDone' = {}
  /\ pc' = IF level + 1 < total_levels THEN "pcr_level" ELSE "pcr_div"
  /\ UNCHANGED <<env, printed, system, system_copy, saved, ret, exitcode,
                 timers, total_levels, ghosts>>

\* a level that ends without the swap
EndLevel_NoSwap ==
  /\ pc = "pcr_level"
  /\ rowsDone = Rows(N)
  /\ level' = level + 1
  /\ rowsDone' = {}
  /\ pc' = IF level + 1 < total_levels THEN "pcr_level" ELSE "pcr_div"
  /\ UNCHANGED <<env, printed, heap, tmp, system, system_copy, saved, ret, exitcode,
                 timers, total_levels, ghosts>>

\* pcr.c 88-107: the parallel for of update_step has ended, the swap
EndLevel ==
  /\ pc = "pcr_level"
  /\ rowsDone = Rows(N)
  /\ heap' = SwapHeap(heap, system, tmp)
  /\ tmp' = Handles(heap, system)
  /\ level' = level + 1
  /\ rowsDone' = {}
  /\ pc' = IF level + 1 < total_levels THEN "pcr_level" ELSE "pcr_div"
  /\ UNCHANGED <<env, printed, system, system_copy, saved, ret, exitcode, timers,
                 total_levels, ghosts>>

\* pcr.c 109-112: iteration i of the parallel for of the divisions
DivRow(i) ==
  /\ pc = "pcr_div"
  /\ i \in Rows(N) \ rowsDone
  /\ heap' = [heap EXCEPT ![Data(heap, system, "x")].val[i] =
                solve_row(Elems(heap, system, "d"), Elems(heap, system, "b"), i)]
  /\ xWrites' = [xWrites EXCEPT ![i] = @ + 1]
  /\ zeroDiv' = (zeroDiv \/ FIsZero(Elems(heap, system, "b")[i]))
  /\ rowsDone' = rowsDone \cup {i}
  /\ UNCHANGED <<env, printed, system, system_copy, saved, pc, ret, exitcode, timers,
                 total_levels, level, tmp, oom, nullDeref, oob>>

\* pcr.c 114-154: the copy back when total_levels is odd, and the return
PcrFinish ==
  /\ pc = "pcr_div"
  /\ rowsDone = Rows(N)
  /\ LET r == Reconcile(heap, system, tmp, N, total_levels)
     IN  heap' = FreeScratch(r.heap, r.tmp)
  /\ clock' = clock + 1
  /\ end_time' = clock + 1
  /\ UNCHANGED start_time
  /\ ret' = Ret("pcr", 0)
  /\ pc' = "report"
  /\ total_levels' = 0
  /\ level' = 0
  /\ tmp' = NoHandles
  /\ rowsDone' = {}
  /\ UNCHANGED <<env, printed, system, system_copy, saved, exitcode, ghosts>>

Next ==
  \/ CreateSystem
  \/ Populate
  \/ CreateCopy
  \/ Copy
  \/ PcrEntry
  \/ \E i \in Rows(MaxN + 1) : UpdateRow(i)
  \/ EndLevel
  \/ \E i \in Rows(MaxN + 1) : DivRow(i)
  \/ PcrFinish
  \/ TimePrint
  \/ ValidateMaxrel
  \/ ValidateMape
  \/ DestroySystem
  \/ DestroyCopy

Spec == Init /\ [][Next]_vars
SpecDecoupled == InitDecoupled /\ [][Next]_vars
SpecValidated == InitValidated /\ [][Next]_vars

(***************************************************************************)
(* Properties                                                              *)
(***************************************************************************)
\* pcr has returned 0 to main and the system is not yet destroyed
PcrReturnedOk == ret = Ret("pcr", 0)
Coef(f) == Elems(heap, system, f)

\* C1: for every n >= 1, when pcr returns 0 the data pointers of a, b, c
\* and d are the ones the caller passed in, none is a scratch buffer of pcr
C1_HandlesRestored ==
  (PcrReturnedOk /\ N >= 1) => Handles(heap, system) = saved

\* a return of pcr after an odd number of levels, every one with a swap
C1_Witness == PcrReturnedOk /\ N >= 1 /\ CeilLog2(N) % 2 = 1

\* C2: for every n >= 1 and every content of a, b, c, d, after pcr has
\* returned a[i] = 0 and c[i] = 0 for every row i
C2_FullyDecoupled ==
  (PcrReturnedOk /\ N >= 1) =>
     \A i \in Rows(N) : FEq(Coef("a")[i], Zero) /\ FEq(Coef("c")[i], Zero)

\* the floats a caller may have left in a[0] and c[n-1]
UnusedVals == {Zero, One, Big, Inf(1)}

\* C3: the x, b and d that pcr leaves do not depend on what a[0] and c[n-1]
\* held: a run on the same system with other floats there ends with the same
\* x, b and d
C3_UnusedEntriesIgnored ==
  (PcrReturnedOk /\ N >= 1) =>
     \A v, w \in UnusedVals :
        LET other == Solve([input EXCEPT !.a[0] = v, !.c[N - 1] = w], N)
        IN  /\ other.x = Coef("x")
            /\ other.b = Coef("b")
            /\ other.d = Coef("d")

\* the right-hand side is k times the diagonal and nothing couples the rows
Decoupled(k) ==
  \A i \in Rows(argN) :
     /\ FIsZero(input.a[i])
     /\ FIsZero(input.c[i])
     /\ input.d[i] = FMul(k, input.b[i])

Factors == {Zero, Flt(3), Flt(-1)}

\* C4 as stated: if a[i] = c[i] = 0 and d[i] = k*b[i] for all i, then after
\* pcr returns x[i] = k for all i, and b and d are what they were
C4_DecoupledSolved ==
  \A k \in Factors :
     (PcrReturnedOk /\ Decoupled(k)) =>
        \A i \in Rows(N) :
           /\ FEq(Coef("x")[i], k)
           /\ FEq(Coef("b")[i], input.b[i])
           /\ FEq(Coef("d")[i], input.d[i])

\* C4: if a[i] = c[i] = 0 and d[i] = k*b[i] for all i, then after pcr
\* returns b and d are what they were and x[i] = k for every row i whose
\* b[i] is not zero
C4_DecoupledSolvedNonZero ==
  \A k \in Factors :
     (PcrReturnedOk /\ Decoupled(k)) =>
        \A i \in Rows(N) :
           /\ ~FIsZero(input.b[i]) => FEq(Coef("x")[i], k)
           /\ FEq(Coef("b")[i], input.b[i])
           /\ FEq(Coef("d")[i], input.d[i])

\* a decoupled system of two or more rows with a factor that is not 1 is solved
C4_Witness ==
  /\ PcrReturnedOk
  /\ N >= 2
  /\ Decoupled(Flt(3))
  /\ \A i \in Rows(N) : ~FIsZero(input.b[i])

\* pcr has been called and has not returned
InPcr == pc \in {"solve", "pcr_level", "pcr_div"}

\* C5: during a call of pcr each x[i] is stored exactly once, after the last
\* level and its swap, with d[i]/b[i] of the outputs of the last level; x
\* is not stored during the levels, and not at all when pcr fails
C5_XWrittenOnceAtEnd ==
  [][InPcr =>
       /\ \A i \in Rows(N) :
            (xWrites'[i] # xWrites[i]
               \/ Elems(heap', system, "x")[i] # Coef("x")[i]) =>
              /\ pc = "pcr_div"
              /\ level = total_levels
              /\ xWrites[i] = 0
              /\ xWrites'[i] = 1
              /\ Elems(heap', system, "x")[i] = Solve(input, N).x[i]
       /\ ret' = Ret("pcr", 0) => \A i \in Rows(N) : xWrites'[i] = 1
       /\ ret' = Ret("pcr", -1) => \A i \in Rows(N) : xWrites'[i] = 0
    ]_vars

\* pcr has returned 0 on a system of two rows or more, x is stored
C5_Witness == PcrReturnedOk /\ N >= 2 /\ \A i \in Rows(N) : xWrites[i] = 1

\* C6: pcr never divides by a divisor that is exactly zero, neither for an
\* alpha or gamma of a level nor for x[i] = d[i]/b[i]
C6_NoZeroDivisor == ~zeroDiv

\* C7: when one of the four malloc of pcr fails, pcr returns non-zero, every
\* scratch buffer it obtained is released exactly once, and the blocks of
\* the system, contents and pointers, are what they were on entry
C7_AllocFailureClean ==
  [][(pc = "solve" /\ system # NULL) =>
       /\ (N >= 1 /\ Len(heap') < Len(heap) + 4) => ret' = Ret("pcr", -1)
       /\ (ret' = Ret("pcr", -1)) =>
            /\ \A p \in 1..Len(heap) : heap'[p] = heap[p]
            /\ \A p \in (Len(heap) + 1)..Len(heap') : heap'[p].frees = 1
            /\ system' = system
    ]_vars

\* pcr has failed after it had obtained one scratch buffer at least
C7_Witness ==
  /\ ret = Ret("pcr", -1)
  /\ Live(heap, system)
  /\ \E p \in DOMAIN heap : heap[p].kind = "buf" /\ heap[p].frees = 1

\* C8: with n = 0 and memory at hand, triSLE_create, pcr and triSLE_destroy
\* return 0 and the program does not fault, whatever calloc returns for a
\* request of zero bytes; pcr allocates nothing
C8_ZeroSizeSucceeds ==
  (argN = 0 /\ ~oom) =>
     /\ pc # "crashed"
     /\ ret.fn \in {"triSLE_create", "pcr", "triSLE_destroy"} => ret.val = 0
     /\ ret.fn = "pcr" => \A p \in DOMAIN heap : heap[p].frees = 0

\* C9: whenever pcr returns 0, for every n >= 0, start and end have both
\* been recorded during the call, start before end
C9_TimersRecorded ==
  PcrReturnedOk => (start_time # 0 /\ end_time # 0 /\ start_time < end_time)

\* C10: triSLE_copy between two systems of different n returns non-zero,
\* leaves dest as it was, and does not run past the end of a buffer
C10_MismatchedCopyRejected ==
  (argN # argNc) =>
     /\ ~oob
     /\ ret.fn = "triSLE_copy" =>
          /\ ret.val # 0
          /\ \A f \in Coeffs : Elems(heap, system_copy, f) = ZeroArray(argNc)


\* C11: a triSLE_copy that succeeds on two systems of equal length leaves
\* a, b, c and d of the destination element-wise equal to those of the
\* source, and changes nothing else: the destination's x, every block of the
\* source, and all records and buffer handles of both systems keep their
\* values, and no buffer of the destination is a buffer of the source.
C11_CopyStep ==
  (/\ pc = "copy"
   /\ ret' = Ret("triSLE_copy", 0)
   /\ pc' = "solve"
   /\ DiagN(heap, system_copy, "b") = DiagN(heap, system, "b"))
  => /\ \A f \in Coeffs :
          Elems(heap', system_copy, f) = Elems(heap, system, f)
     /\ Elems(heap', system_copy, "x") = Elems(heap, system_copy, "x")
     /\ \A p \in DOMAIN heap :
          p \notin {Data(heap, system_copy, f) : f \in Coeffs}
            => heap'[p] = heap[p]
     /\ \A j, k \in DOMAIN Fields :
          /\ Data(heap', system_copy, Fields[j]) = Data(heap, system_copy, Fields[j])
          /\ Data(heap', system, Fields[j]) = Data(heap, system, Fields[j])
          /\ Data(heap, system_copy, Fields[j]) # Data(heap, system, Fields[k])
C12_CreateFailureClean ==
  calloc0 = "unique"
  => /\ nullDeref = {}
     /\ (ret = Ret("triSLE_create", -1) /\ pc = "exit")
          => /\ system = NULL
             /\ \A p \in DOMAIN heap : heap[p].frees = 1
     /\ (ret = Ret("triSLE_create", -1) /\ pc = "destroy")
          => /\ system_copy = NULL
             /\ \A p \in DOMAIN heap : p > system + 10 => heap[p].frees = 1

\* C13: diagonal_destroy called with a null pointer reads no memory.
C13_DestroyNullNoAccess == "diagonal_destroy" \notin nullDeref


\* C14: triSLE_validate_maxrel returns NaN for two null systems.  On two
\* systems it examines the rows in index order up to and including the first
\* row whose residual is NaN and then returns NaN, whatever the maximum so
\* far and whatever d0 of that row; when no residual is NaN it examines
\* every row and returns the largest relative error of the rows whose d0 is
\* not zero (0 if there is none), so that a row with d0 = 0 never changes
\* the maximum.
NaNRows ==
  {i \in Rows(DiagN(heap, system_copy, "b")) :
     FIsNaN(Residual(heap, system, system_copy, i))}
RowsBeforeNaN ==
  {i \in Rows(DiagN(heap, system_copy, "b")) : \A j \in NaNRows : i < j}
MeasuredErrors ==
  {Zero} \cup
  {RelativeError(Residual(heap, system, system_copy, i),
                 Elems(heap, system_copy, "d")[i]) :
     i \in {j \in RowsBeforeNaN :
              ~FEq(Elems(heap, system_copy, "d")[j], Zero)}}
C15_ValidationStep ==
  (pc \in {"validate_maxrel", "validate_mape"} /\ pc' # "crashed")
  => /\ heap' = heap
     /\ UNCHANGED <<system, system_copy>>
     /\ Len(printed') = Len(printed) + 1
     /\ printed'[1] = triSLE_validate_maxrel(heap', system, system_copy).val
     /\ Len(printed') = 2
          => printed'[2] = triSLE_validate_mape(heap', system, system_copy)
Phase ==
  [create |-> 1, populate |-> 2, create_copy |-> 3, copy |-> 3, solve |-> 4,
   pcr_level |-> 4, pcr_div |-> 4, report |-> 4, validate_maxrel |-> 5,
   validate_mape |-> 5, destroy |-> 6, destroy_copy |-> 6, exit |-> 7,
   crashed |-> 7]
SystemBlocks(h, soe) ==
  {soe} \cup {Diag(h, soe, Fields[j]) : j \in DOMAIN Fields}
        \cup {Data(h, soe, Fields[j]) : j \in DOMAIN Fields}
LiveSystem(h, soe) ==
  soe # NULL /\ \A p \in SystemBlocks(h, soe) : Live(h, p)
\* the records of soe have been released once each, and so has every buffer
DestroyedOnce(h, soe) ==
  /\ \A p \in {soe} \cup {Diag(h, soe, Fields[j]) : j \in DOMAIN Fields} :
       h[p].frees = 1
  /\ \A p \in DOMAIN h : h[p].kind = "buf" => h[p].frees = 1
C16_DriverStep ==
  /\ Phase[pc'] >= Phase[pc]
  /\ Phase[pc'] > Phase[pc] + 1 => pc' \in {"destroy", "exit", "crashed"}
  /\ pc \in {"populate", "copy", "solve", "pcr_level", "pcr_div",
             "validate_maxrel", "validate_mape"} => LiveSystem(heap, system)
  /\ pc \in {"copy", "validate_maxrel", "validate_mape"}
       => LiveSystem(heap, system_copy)
  /\ (pc' = "exit" /\ system' # NULL)
       => /\ DestroyedOnce(heap', system')
          /\ system_copy' # NULL => DestroyedOnce(heap', system_copy')
C16_DriverOrder == [][C16_DriverStep]_vars

\* main has returned 0 after validating and destroying two systems
C16_Witness ==
  /\ pc = "exit"
  /\ exitcode = 0
  /\ Len(printed) = 2
  /\ argN >= 2
  /\ DestroyedOnce(heap, system)
  /\ DestroyedOnce(heap, system_copy)


\* C17: while a level of update_step runs, whatever rows are done already,
\* every row loads only from the live a, b, c, d of the system, stores only
\* to index i of the four scratch buffers, no two rows store to the same
\* location, and no location that a row stores to is loaded by any row; the
\* step of row i changes nothing but the four locations it stores to, and
\* what it stores is the value computed from the input of the level.
LiveLocs == {<<Data(heap, system, f), k>> : f \in Coeffs, k \in Rows(N)}
LevelIn == [f \in Coeffs |-> Elems(heap, system, f)]
C17_LevelStep ==
  pc = "pcr_level"
  => /\ \A i \in Rows(N) :
          /\ RowReads(heap, system, N, level, i) \subseteq LiveLocs
          /\ RowWrites(tmp, i) \cap LiveLocs = {}
          /\ \A f \in Coeffs : Live(heap, tmp[f]) /\ Live(heap, Data(heap, system, f))
     /\ \A i, j \in Rows(N) :
          /\ RowWrites(tmp, i) \cap RowReads(heap, system, N, level, j) = {}
          /\ i # j => RowWrites(tmp, i) \cap RowWrites(tmp, j) = {}
     /\ (level' = level /\ rowsDone' # rowsDone)
          => \E i \in Rows(N) \ rowsDone :
               /\ rowsDone' = rowsDone \cup {i}
               /\ \A p \in DOMAIN heap :
                    /\ heap'[p].frees = heap[p].frees
                    /\ heap'[p].kind = heap[p].kind
                    /\ heap'[p].val # heap[p].val
                         => \A k \in DOMAIN heap[p].val :
                              heap'[p].val[k] # heap[p].val[k]
                                => <<p, k>> \in RowWrites(tmp, i)
               /\ \A f \in Coeffs :
                    heap'[tmp[f]].val[i] = LevelOut(LevelIn, N, level)[f][i]
C17_NoDataRace == [][C17_LevelStep]_vars

\* in the second level of a system of three rows, the middle row is done
\* and the rows on both sides of it are not
C17_Witness ==
  /\ pc = "pcr_level"
  /\ N = 3
  /\ level = 1
  /\ rowsDone = {1}


\* C18: the level counter advances and the data pointers of the system are
\* swapped only when every row of the running level is done and the scratch
\* buffers hold the complete output of that level; the buffers the rows read
\* hold, when a level or the division pass starts, the complete output of
\* all the levels before, computed from the input, and no step of that level
\* or pass changes them.
C18_LevelOrderStep ==
  /\ (pc = "pcr_level" /\ (level' # level
                          \/ Handles(heap', system) # Handles(heap, system)))
       => /\ rowsDone = Rows(N)
          /\ level' = level + 1
          /\ \A f \in Coeffs :
               /\ heap[tmp[f]].val = LevelOut(LevelIn, N, level)[f]
               /\ Elems(heap', system, f) = heap[tmp[f]].val
  /\ (pc \in {"pcr_level", "pcr_div"} /\ rowsDone = {})
       => LevelIn = Reduce(input, N, 0, level)
  /\ (pc \in {"pcr_level", "pcr_div"} /\ pc' = pc /\ level' = level)
       => \A f \in Coeffs : Elems(heap', system, f) = LevelIn[f]
C18_LevelOrder == [][C18_LevelOrderStep]_vars

\* the second level of a system of three rows is about to start
C18_Witness ==
  /\ pc = "pcr_level"
  /\ N = 3
  /\ level = 1
  /\ rowsDone = {}
  /\ LevelIn = LevelOut(input, N, 0)


\* C19: the pass that ends pcr after the divisions (the copy back and the
\* swap back when the level count is odd, nothing when it is even) changes
\* no value: after the return a, b, c, d of the system are element-wise the
\* values the division pass read, which are the output of the last level,
\* and x is what the division pass stored.
C19_ReturnStep ==
  (pc = "pcr_div" /\ pc' = "report")
  => /\ \A j \in DOMAIN Fields :
          Elems(heap', system, Fields[j]) = Elems(heap, system, Fields[j])
     /\ \A f \in Coeffs :
          Elems(heap', system, f) = Reduce(input, N, 0, CeilLog2(N))[f]
C19_ValuesPreserved == [][C19_ReturnStep]_vars

\* pcr has returned after one level (an odd count) on two rows, and after
\* the copy back the system holds the output of that level
C19_Witness ==
  /\ PcrReturnedOk
  /\ pc = "report"
  /\ N = 2
  /\ CeilLog2(N) % 2 = 1
  /\ LevelIn = LevelOut(input, N, 0)
  /\ LevelIn # input


\* C20: in every state after a return of pcr on a system of one row or
\* more, with 0 or with -1, no block that a system owned when pcr was
\* entered (the records, the buffers main saved the addresses of, x, and the
\* blocks of the copy) has been released, every other block is a scratch
\* buffer of the call and has been released exactly once, and there are four
\* of them when the call returned 0.
OwnedOnEntry ==
  {system, system_copy}
    \cup {Diag(heap, system, Fields[j]) : j \in DOMAIN Fields}
    \cup {Diag(heap, system_copy, Fields[j]) : j \in DOMAIN Fields}
    \cup {Data(heap, system_copy, Fields[j]) : j \in DOMAIN Fields}
    \cup {saved[f] : f \in Coeffs}
    \cup {Data(heap, system, "x")}
C20_ScratchReleased ==
  (ret.fn = "pcr" /\ N >= 1)
  => /\ \A p \in OwnedOnEntry : heap[p].frees = 0
     /\ \A p \in DOMAIN heap \ OwnedOnEntry :
          heap[p].kind = "buf" /\ heap[p].frees = 1
     /\ ret.val = 0 => Cardinality(DOMAIN heap \ OwnedOnEntry) = 4
     /\ ret.val # 0 => Cardinality(DOMAIN heap \ OwnedOnEntry) < 4

\* pcr has returned 0 after an odd number of levels
C20_Witness ==
  /\ ret = Ret("pcr", 0)
  /\ N = 2
  /\ total_levels = 0
  /\ Cardinality({p \in DOMAIN heap : heap[p].frees = 1}) = 4
  /\ \A f \in Coeffs : Live(heap, saved[f])


\* C21: for every n >= 1 the number of levels pcr runs is the least L with
\* 2^L >= n (zero for n = 1), and a run of pcr on n rows goes through the
\* levels 0 .. L-1 in order, then the division pass, then returns, with
\* a, b, c, d untouched when n = 1.
LevelSizes ==
  (1..(MaxN + 1)) \cup
  {Pow2(k) + j : k \in 2..(FLT_MANT_DIG + 1), j \in {-1, 0, 1}}
LeastLevels(n) == CHOOSE l \in 0..(FLT_MANT_DIG + 2) :
                    Pow2(l) >= n /\ (l > 0 => Pow2(l - 1) < n)
C21_LevelCount ==
  /\ \A n \in LevelSizes : CeilLog2(n) = LeastLevels(n)
  /\ pc \in {"pcr_level", "pcr_div"}
       => /\ total_levels = LeastLevels(N)
          /\ level <= total_levels
          /\ pc = "pcr_div" <=> level = total_levels
          /\ N = 1 => LevelIn = input


\* C22: between the allocation and the release of the scratch buffers, for
\* each of a, b, c, d the data pointer of the system and the scratch pointer
\* of pcr are two distinct unreleased buffers, one the buffer the system
\* owned on entry and the other a buffer pcr allocated; the pointer of the
\* system is the original one exactly when the number of swaps done is even;
\* every step of pcr keeps the pair of each vector and the pointer of x,
\* so that no buffer moves from one vector to another; and the pass before
\* the release leaves the original buffers in the system.
Pair(h, t, f) == {Data(h, system, f), t[f]}
C22_RoleStep ==
  pc \in {"pcr_level", "pcr_div"}
  => /\ \A f \in Coeffs :
          /\ Data(heap, system, f) # tmp[f]
          /\ Live(heap, Data(heap, system, f)) /\ Live(heap, tmp[f])
          /\ \E s \in DOMAIN heap \ OwnedOnEntry :
               Pair(heap, tmp, f) = {saved[f], s}
          /\ Data(heap, system, f) = saved[f] <=> level % 2 = 0
     /\ Cardinality({Data(heap, system, Fields[j]) : j \in DOMAIN Fields}
                    \cup {tmp[f] : f \in Coeffs}) = 9
     /\ pc' \in {"pcr_level", "pcr_div"}
          => /\ \A f \in Coeffs : Pair(heap', tmp', f) = Pair(heap, tmp, f)
             /\ Data(heap', system, "x") = Data(heap, system, "x")
     /\ pc' = "report"
          => LET r == Reconcile(heap, system, tmp, N, total_levels)
             IN  /\ \A f \in Coeffs :
                      /\ Pair(r.heap, r.tmp, f) = Pair(heap, tmp, f)
                      /\ Data(r.heap, system, f) = saved[f]
                      /\ Data(heap', system, f) = saved[f]
                      /\ heap'[r.tmp[f]].frees = 1
                 /\ Data(heap', system, "x") = Data(heap, system, "x")
C22_BufferRoles == [][C22_RoleStep]_vars

\* in the second level of three rows, after one swap, the system holds the
\* buffers pcr allocated and pcr holds the buffers of the caller
C22_Witness ==
  /\ pc = "pcr_level"
  /\ N = 3
  /\ level = 1
  /\ rowsDone = {0, 2}
  /\ tmp = saved
  /\ \A f \in Coeffs : Data(heap, system, f) \notin OwnedOnEntry

=============================================================================
